---- MODULE Spec2Model ----
(***************************************************************************)
(* Model of the audio front-end of mycroft-core's speech client:           *)
(*   - MutableStream / MutableMicrophone   (mycroft/client/speech/mic.py)  *)
(*   - ResponsiveRecognizer                (.../speech/recognizer.py)      *)
(*   - PreciseHotword                      (.../speech/hotword_factory.py) *)
(*                                                                         *)
(* Audio data is a sequence of bytes.  One frame is SAMPLE_WIDTH bytes, a  *)
(* little-endian signed sample.  The specifications share the variables:   *)
(*   SpecStream      threads calling MutableStream.read and                *)
(*                   MutableMicrophone.mute / unmute concurrently;         *)
(*   SpecRestart     threads calling mute / unmute while another calls     *)
(*                   MutableMicrophone.restart;                            *)
(*   Spec, FairSpec  the listen() loop of ResponsiveRecognizer with the    *)
(*                   threads that call stop(), trigger_listen(), the       *)
(*                   engine's on_activation callback and the button-press  *)
(*                   signal;                                               *)
(*   SpecWait,       _wait_until_wake_word on its own, over scripted runs  *)
(*   SpecFeed        of chunks;                                            *)
(*   SpecPhrase      _record_phrase on its own, over bounded chunk         *)
(*                   streams;                                              *)
(*   SpecSilence     _record_phrase on its own, over every stream of loud  *)
(*                   and quiet chunks;                                     *)
(*   SpecMutePhrase  _record_phrase while other threads mute and unmute;   *)
(*   FairSpecStream  SpecStream with running threads and a device that     *)
(*                   delivers.                                             *)
(***************************************************************************)
EXTENDS Integers, Sequences, FiniteSets, TLC

(***************************************************************************)
(* Bounds of the model.                                                    *)
(***************************************************************************)
\* largest size (in frames) a stream-level read asks for
MaxReadSize == 2
\* largest value get_read_available() reports
MaxAvail == 2
\* source.CHUNK: frames per device read of the listening loop
CHUNK == 2
\* resolution of the energy threshold: it is held as an integer number of
\* 1/ThrScale units (the code holds a float)
ThrScale == 1000
\* listen() calls one run makes
MaxListens == 2
\* waiting-phase iterations of one listen() call (caps frame_idx)
MaxFrames == 2
\* restart() calls of one run
MaxRestarts == 2
\* trigger_listen() calls and engine activations of one run
MaxTriggers == 1
MaxActivations == 2
\* max_loud_chunks (int(recording_timeout / sec_per_buffer)) as configured
\* in the loop specification and in the phrase specification
LoopMaxLoudChunks == 2
PhraseMaxLoudChunks == 13
\* max_chunks_of_silence (int(recording_timeout_with_silence /
\* sec_per_buffer)) as configured in the loop specification, and its two
\* values in the specification of the recording phase over free streams
LoopMaxChunksOfSilence == 1
ShortSilenceTimeout == 4
LongSilenceTimeout == 9
\* longest quiet tail of a scripted phrase stream
MaxQuietTail == 5
\* reads of one waiting phase the history wait_reads keeps
MaxHistory == 200
\* lengths of the scripted runs of the waiting-phase specification: loud
\* chunks (enough to take the threshold from its start to the ceiling),
\* quiet chunks (enough to take it to the floor), chunks just above the
\* initial threshold
LoudRun == 1160
QuietRun == 25500
MixedRun == 300

(***************************************************************************)
(* Program constants.                                                      *)
(***************************************************************************)
\* pyaudio.get_sample_size(format) for the 16-bit format Microphone opens
SAMPLE_WIDTH == 2
\* recognizer.py:66-68
initial_energy_threshold == 13
min_rms_threshold == 1
max_rms_threshold == 40
\* recognizer.py:71  int(0.5 / 0.064)
min_loud_chunks == 7
\* recognizer.py:73  int(0.25 / 0.064)
min_silent_chunks == 3
\* recognizer.py:108  quiet chunks before the threshold decays
quiet_streak_limit == 100
\* recognizer.py:88  deque(maxlen=50)
last_chunks_maxlen == 50

VARIABLES
    \* ---- MutableStream / MutableMicrophone ----
    muted,            \* MutableStream.muted
    wrapped_stream,   \* the wrapped hardware stream: "active" | "stopped",
                      \* or "closed" (MutableStream.wrapped_stream is None)
    read_lock,        \* MutableStream.read_lock: "none" or the holding thread
    mic_muted,        \* MutableMicrophone.muted
    cpc,              \* position of each controller thread in mute()/unmute()
    rpc,              \* position of the reader thread in MutableStream.read
    size,             \* argument of the read in progress
    remaining,        \* local of read
    frames,           \* local of read: the partial hardware reads, in order
    result,           \* what the last read returned
    ret_kind,         \* "none" | "muted" (line 85) | "audio" (line 101)
    hw_log,           \* history: bytes the hardware delivered to this read
    slept,            \* history: this read slept at line 90
    muted_at_start,   \* history: muted flag when this read got the lock
    hw_read_stopped,  \* history: a hardware read hit a stopped stream
    mic_stream,       \* MutableMicrophone.stream: "open", "closed" (a stream
                      \* that was closed) or "none" (None)
    rst_pc,           \* position of the thread that calls restart()
    new_muted,        \* _start: the value of self.muted read at line 140
    n_restarts,       \* history: restart() calls that returned
    muted_before,     \* history: MutableMicrophone.muted when restart() began
    window_call,      \* history: mute() or unmute() was called between the
                      \* close and the reopen of this restart
    outside_call,     \* history: a mute() or unmute() call overlapped this
                      \* restart outside of that window
    since_restart,    \* history: restart() returned and no mute() or
                      \* unmute() step was made since
    waited_read,      \* history, per controller: its call in progress (or
                      \* its last call) found the stream lock held by a read
    \* ---- ResponsiveRecognizer / PreciseHotword ----
    stop_signaled,    \* self._stop_signaled
    listen_triggered, \* self._listen_triggered
    has_found,        \* PreciseHotword.has_found
    button_press,     \* the 'buttonPress' signal is present
    max_loud_chunks,  \* self.max_loud_chunks (from the configuration)
    max_chunks_of_silence,  \* self.max_chunks_of_silence (likewise)
    save_wake_words,  \* self.save_wake_words (from the configuration)
    dynamic_energy_threshold,  \* in 1/ThrScale units
    lpc,              \* position of the thread that calls listen()
    skipped_frames,   \* local of _wait_until_wake_word
    frame_idx,        \* local of _wait_until_wake_word
    last_chunks,      \* local of _wait_until_wake_word: deque(maxlen=50)
    chunk,            \* local of _wait_until_wake_word: the chunk last read
    found,            \* found_wake_word: what the test at line 57 saw
    wait_reads,       \* history: the first MaxHistory reads of this waiting
                      \* phase, each with the threshold in force at the read
    trig_reads,       \* history: reads of this waiting phase that completed
                      \* with the trigger flag set
    ww_stream,        \* history: buffers written to the engine by the first
                      \* MaxHistory iterations of this waiting phase
    num_chunks,       \* locals of _record_phrase
    num_loud_chunks,
    num_silent_chunks,
    all_chunks,
    events,           \* what emitter.emit was called with, in order
    listen_result,    \* "pending" | "none" (return) | "audio" (AudioData)
    utterance,        \* frame_data of the AudioData listen() returned
    dev_scripted,     \* the device follows dev_script (else any level)
    dev_script,       \* levels of the chunks the device will deliver
    dev_runs,         \* what the device delivers after dev_script: runs
                      \* <<level, count>> of equal chunks
    dev_input,        \* history: dev_script as it was at the start
    n_listens,        \* history: listen() calls so far
    n_triggers,       \* history: trigger_listen() calls so far
    n_activations,    \* history: on_activation() calls so far
    stop_pc,          \* history: lpc when stop() first ran
    stop_listen,      \* history: n_listens when stop() first ran
    stop_events,      \* history: Len(events) when stop() first ran
    reads_after_stop, \* history: device reads started with the flag set
    phrase_reads,     \* history: chunks the device returned to this phrase
    button_at_check,  \* history: the signal was present at line 153
    n_true_polls,     \* history: found_wake_word() calls that returned True
    last_poll,        \* history: <<result, n_activations>> of the last
                      \* found_wake_word() call, and of the one before
    prev_poll

micVars == <<mic_stream, rst_pc, new_muted, n_restarts, muted_before,
             window_call, outside_call, since_restart, waited_read>>

streamVars == <<muted, wrapped_stream, read_lock, mic_muted, cpc, rpc, size,
                remaining, frames, result, ret_kind, hw_log, slept,
                muted_at_start, hw_read_stopped, micVars>>

flagVars == <<stop_signaled, listen_triggered, has_found, button_press>>
cfgVars == <<max_loud_chunks, max_chunks_of_silence, save_wake_words>>
waitVars == <<dynamic_energy_threshold, skipped_frames, frame_idx,
              last_chunks, ww_stream, chunk, found, wait_reads, trig_reads>>
recVars == <<num_chunks, num_loud_chunks, num_silent_chunks, all_chunks,
             phrase_reads, button_at_check>>
outVars == <<events, listen_result, utterance>>
devVars == <<dev_scripted, dev_script, dev_runs, dev_input>>
stopHist == <<stop_pc, stop_listen, stop_events, reads_after_stop>>
countHist == <<n_listens, n_triggers, n_activations>>
pollHist == <<n_true_polls, last_poll, prev_poll>>

loopVars == <<flagVars, cfgVars, waitVars, recVars, outVars, devVars,
              stopHist, countHist, pollHist, lpc>>

vars == <<streamVars, loopVars>>

(***************************************************************************)
(* Byte-level helpers.                                                     *)
(***************************************************************************)
MinIsFirst(a, b) == a
Min(a, b) == IF a <= b THEN a ELSE b
Max(a, b) == IF a >= b THEN a ELSE b

\* b'\x00' * n
Zeros(n) == [i \in 1..n |-> 0]

\* b"".join(chunks)
RECURSIVE Join(_)
Join(chunks) ==
    IF chunks = <<>> THEN <<>> ELSE Head(chunks) \o Join(Tail(chunks))

\* one signed 16-bit sample as SAMPLE_WIDTH little-endian bytes
FrameBytes(s) ==
    LET u == IF s < 0 THEN s + 65536 ELSE s
    IN  <<u % 256, u \div 256>>

\* k frames holding sample s: what wrapped_stream.read(k) returns
HwData(k, s) == Join([i \in 1..k |-> FrameBytes(s)])

\* sample values the hardware delivers in the stream specification
HwSamples == {0, 7}

(***************************************************************************)
(* MutableStream                                                           *)
(***************************************************************************)
Reader == "r"
Controllers == {"c1", "c2"}

\* mic.py:48  self.muted_buffer = b''.join([b'\x00' * self.SAMPLE_WIDTH])
MutedBufferFullSize == Zeros(size * SAMPLE_WIDTH)
muted_buffer == Zeros(SAMPLE_WIDTH)

\* `with self.read_lock:` entry: blocks until the lock is free
AcquireNoExclusion(t) == read_lock' = t
Acquire(t) == read_lock = "none" /\ read_lock' = t

\* `with self.read_lock:` exit
ReleaseNever == UNCHANGED read_lock
Release == read_lock' = "none"

readerLocals == <<size, remaining, frames, result, ret_kind, hw_log, slept,
                  muted_at_start, hw_read_stopped>>

\* positions of restart() between the close of the old hardware stream
\* (line 151) and the opening of the new one (line 135)
WindowPcs == {"drop", "open"}

\* what a step of mute() or unmute() leaves of the microphone, and the
\* history of how the call lies to a restart in progress
ControllerStep ==
    /\ since_restart' = FALSE
    /\ outside_call' = (outside_call \/ rst_pc \notin (WindowPcs \cup {"idle"}))
    /\ window_call' = (window_call \/ rst_pc \in WindowPcs)
    /\ waited_read' =
           [c \in Controllers |->
              IF cpc'[c] = cpc[c] THEN waited_read[c]
              ELSE IF cpc'[c] \in {"mute_check", "unmute_check"} THEN FALSE
              ELSE IF cpc'[c] \in {"mute_acquire", "unmute_acquire"}
                   THEN read_lock = Reader
              ELSE waited_read[c]]
    /\ UNCHANGED <<mic_stream, rst_pc, new_muted, n_restarts, muted_before>>

\* MutableMicrophone.mute(), line 165: self.muted = True
MicMute(c) ==
    /\ cpc[c] = "idle"
    /\ mic_muted' = TRUE
    /\ cpc' = [cpc EXCEPT ![c] = "mute_check"]
    /\ UNCHANGED <<muted, wrapped_stream, read_lock, rpc, readerLocals,
                   loopVars>>
    /\ ControllerStep

\* MutableMicrophone.mute(), line 166: if self.stream: self.stream.mute()
MuteCheck(c) ==
    /\ cpc[c] = "mute_check"
    /\ cpc' = [cpc EXCEPT ![c] =
                 IF mic_stream = "none" THEN "idle" ELSE "mute_acquire"]
    /\ UNCHANGED <<muted, wrapped_stream, read_lock, mic_muted, rpc,
                   readerLocals, loopVars>>
    /\ ControllerStep

\* MutableStream.mute(), line 57
MuteAcquire(c) ==
    /\ cpc[c] = "mute_acquire"
    /\ Acquire(c)
    /\ cpc' = [cpc EXCEPT ![c] = "mute_set"]
    /\ UNCHANGED <<muted, wrapped_stream, mic_muted, rpc, readerLocals,
                   loopVars>>
    /\ ControllerStep

\* MutableStream.mute(), line 58
MuteSet(c) ==
    /\ cpc[c] = "mute_set"
    /\ muted' = TRUE
    /\ cpc' = [cpc EXCEPT ![c] = "mute_stop"]
    /\ UNCHANGED <<wrapped_stream, read_lock, mic_muted, rpc, readerLocals,
                   loopVars>>
    /\ ControllerStep

\* MutableStream.mute(), line 59 and the release of the lock; on a closed
\* stream wrapped_stream is None and the call raises AttributeError
MuteStop(c) ==
    /\ cpc[c] = "mute_stop"
    /\ wrapped_stream' =
           IF wrapped_stream = "closed" THEN "closed" ELSE "stopped"
    /\ Release
    /\ cpc' = [cpc EXCEPT ![c] = "idle"]
    /\ UNCHANGED <<muted, mic_muted, rpc, readerLocals,
                   loopVars>>
    /\ ControllerStep

\* MutableMicrophone.unmute(), line 170
MicUnmute(c) ==
    /\ cpc[c] = "idle"
    /\ mic_muted' = FALSE
    /\ cpc' = [cpc EXCEPT ![c] = "unmute_check"]
    /\ UNCHANGED <<muted, wrapped_stream, read_lock, rpc, readerLocals,
                   loopVars>>
    /\ ControllerStep

\* MutableMicrophone.unmute(), line 171: if self.stream: self.stream.unmute()
UnmuteCheck(c) ==
    /\ cpc[c] = "unmute_check"
    /\ cpc' = [cpc EXCEPT ![c] =
                 IF mic_stream = "none" THEN "idle" ELSE "unmute_acquire"]
    /\ UNCHANGED <<muted, wrapped_stream, read_lock, mic_muted, rpc,
                   readerLocals, loopVars>>
    /\ ControllerStep

\* MutableStream.unmute(), line 63
UnmuteAcquire(c) ==
    /\ cpc[c] = "unmute_acquire"
    /\ Acquire(c)
    /\ cpc' = [cpc EXCEPT ![c] = "unmute_set"]
    /\ UNCHANGED <<muted, wrapped_stream, mic_muted, rpc, readerLocals,
                   loopVars>>
    /\ ControllerStep

\* MutableStream.unmute(), line 64
UnmuteSet(c) ==
    /\ cpc[c] = "unmute_set"
    /\ muted' = FALSE
    /\ cpc' = [cpc EXCEPT ![c] = "unmute_start"]
    /\ UNCHANGED <<wrapped_stream, read_lock, mic_muted, rpc, readerLocals,
                   loopVars>>
    /\ ControllerStep

\* MutableStream.unmute(), line 65 and the release of the lock; on a
\* closed stream wrapped_stream is None and the call raises AttributeError
UnmuteStart(c) ==
    /\ cpc[c] = "unmute_start"
    /\ wrapped_stream' =
           IF wrapped_stream = "closed" THEN "closed" ELSE "active"
    /\ Release
    /\ cpc' = [cpc EXCEPT ![c] = "idle"]
    /\ UNCHANGED <<muted, mic_muted, rpc, readerLocals,
                   loopVars>>
    /\ ControllerStep

\* a mute() or unmute() call that holds the stream a restart has replaced:
\* what is left of it acts on the closed stream and ends (its stop_stream or
\* start_stream raises AttributeError)
StaleReturn(c) ==
    /\ cpc[c] = "stale"
    /\ cpc' = [cpc EXCEPT ![c] = "idle"]
    /\ UNCHANGED <<muted, wrapped_stream, read_lock, mic_muted, rpc,
                   readerLocals, loopVars>>
    /\ ControllerStep

\* MutableMicrophone.restart() is called (line 159), on an open microphone
\* by the thread that reads from it
RestartCall ==
    /\ rst_pc = "idle"
    /\ rpc = "idle"
    /\ mic_stream = "open"
    /\ n_restarts < MaxRestarts
    /\ rst_pc' = "close"
    /\ muted_before' = mic_muted
    /\ window_call' = FALSE
    /\ outside_call' = (\E c \in Controllers : cpc[c] # "idle")
    /\ since_restart' = FALSE
    /\ UNCHANGED <<muted, wrapped_stream, read_lock, mic_muted, cpc, rpc,
                   readerLocals, mic_stream, new_muted, n_restarts,
                   waited_read, loopVars>>

\* _stop, lines 148-151: stop the hardware stream when it runs, close it
\* (MutableStream.close, lines 103-105); none of it takes the stream lock
RestartClose ==
    /\ rst_pc = "close"
    /\ wrapped_stream' = "closed"
    /\ mic_stream' = "closed"
    /\ rst_pc' = "drop"
    /\ UNCHANGED <<muted, read_lock, mic_muted, cpc, rpc, readerLocals,
                   new_muted, n_restarts, muted_before, window_call,
                   outside_call, since_restart, waited_read, loopVars>>

\* _stop, lines 156-157: self.stream = None; self.audio.terminate()
RestartDrop ==
    /\ rst_pc = "drop"
    /\ mic_stream' = "none"
    /\ rst_pc' = "open"
    /\ UNCHANGED <<muted, wrapped_stream, read_lock, mic_muted, cpc, rpc,
                   readerLocals, new_muted, n_restarts, muted_before,
                   window_call, outside_call, since_restart, waited_read,
                   loopVars>>

\* _start, line 140: the muted argument handed to MutableStream
StartMutedDefault == FALSE
StartMuted == mic_muted

\* _start, lines 132-140: open a new hardware stream and read self.muted
RestartOpen ==
    /\ rst_pc = "open"
    /\ new_muted' = StartMuted
    /\ outside_call' = (outside_call \/ \E c \in Controllers : cpc[c] # "idle")
    /\ rst_pc' = "construct"
    /\ UNCHANGED <<muted, wrapped_stream, read_lock, mic_muted, cpc, rpc,
                   readerLocals, mic_stream, n_restarts, muted_before,
                   window_call, since_restart, waited_read, loopVars>>

\* MutableStream.__init__ (lines 43-53: a new lock, the muted flag, mute()
\* when muted) and the assignment to self.stream at line 135; restart()
\* returns.  A mute() or unmute() call that is past its test of self.stream
\* is left with the old stream
RestartConstruct ==
    /\ rst_pc = "construct"
    /\ muted' = new_muted
    /\ wrapped_stream' = IF new_muted THEN "stopped" ELSE "active"
    /\ read_lock' = "none"
    /\ mic_stream' = "open"
    /\ cpc' = [c \in Controllers |->
                 IF cpc[c] \in {"idle", "mute_check", "unmute_check"}
                 THEN cpc[c] ELSE "stale"]
    /\ n_restarts' = n_restarts + 1
    /\ since_restart' = TRUE
    /\ rst_pc' = "idle"
    /\ UNCHANGED <<mic_muted, rpc, readerLocals, new_muted, muted_before,
                   window_call, outside_call, waited_read, loopVars>>

\* MutableStream.read(size), lines 78-79
ReadCall(n) ==
    /\ rpc = "idle"
    /\ size' = n
    /\ remaining' = n
    /\ frames' = <<>>
    /\ result' = <<>>
    /\ ret_kind' = "none"
    /\ hw_log' = <<>>
    /\ slept' = FALSE
    /\ muted_at_start' = FALSE
    /\ hw_read_stopped' = FALSE
    /\ rpc' = "acquire"
    /\ UNCHANGED <<muted, wrapped_stream, read_lock, mic_muted, cpc, loopVars,
                   micVars>>

\* MutableStream.read, line 80
ReadAcquire ==
    /\ rpc = "acquire"
    /\ Acquire(Reader)
    /\ muted_at_start' = muted
    /\ rpc' = "loop"
    /\ UNCHANGED <<muted, wrapped_stream, mic_muted, cpc, size, remaining,
                   frames, result, ret_kind, hw_log, slept, hw_read_stopped,
                   loopVars, micVars>>

\* MutableStream.read, lines 81-85: the loop test and the muted test
ReadLoop ==
    /\ rpc = "loop"
    /\ IF remaining > 0
       THEN IF muted
            THEN /\ result' = muted_buffer
                 /\ ret_kind' = "muted"
                 /\ Release
                 /\ rpc' = "idle"
            ELSE /\ rpc' = "avail"
                 /\ UNCHANGED <<result, ret_kind, read_lock>>
       ELSE /\ Release
            /\ rpc' = "join"
            /\ UNCHANGED <<result, ret_kind>>
    /\ UNCHANGED <<muted, wrapped_stream, mic_muted, cpc, size, remaining,
                   frames, hw_log, slept, muted_at_start, hw_read_stopped,
                   loopVars, micVars>>

\* MutableStream.read, lines 87-95: poll the device, sleep or read
ReadAvail ==
    /\ rpc = "avail"
    /\ \E avail \in 0..MaxAvail, s \in HwSamples :
         LET to_read == Min(avail, remaining) IN
         IF to_read <= 0
         THEN /\ slept' = TRUE
              /\ UNCHANGED <<frames, remaining, hw_log, hw_read_stopped>>
         ELSE /\ frames' = Append(frames, HwData(to_read, s))
              /\ remaining' = remaining - to_read
              /\ hw_log' = hw_log \o HwData(to_read, s)
              /\ hw_read_stopped' =
                     (hw_read_stopped \/ wrapped_stream = "stopped")
              /\ UNCHANGED slept
    /\ rpc' = "loop"
    /\ UNCHANGED <<muted, wrapped_stream, read_lock, mic_muted, cpc, size,
                   result, ret_kind, muted_at_start, loopVars, micVars>>

\* MutableStream.read, lines 97-101
ReadReturn ==
    /\ rpc = "join"
    /\ result' = Join(frames)
    /\ ret_kind' = "audio"
    /\ rpc' = "idle"
    /\ UNCHANGED <<muted, wrapped_stream, read_lock, mic_muted, cpc, size,
                   remaining, frames, hw_log, slept, muted_at_start,
                   hw_read_stopped, loopVars, micVars>>

(***************************************************************************)
(* Energy: audioop.rms and the adaptive threshold                          *)
(***************************************************************************)
RECURSIVE ISqrtFrom(_, _)
ISqrtFrom(x, k) == IF (k + 1) * (k + 1) > x THEN k ELSE ISqrtFrom(x, k + 1)

\* the signed sample held by frame i of a buffer
SampleAt(buf, i) ==
    LET u == buf[SAMPLE_WIDTH * (i - 1) + 1]
             + 256 * buf[SAMPLE_WIDTH * (i - 1) + 2]
    IN  IF u >= 32768 THEN u - 65536 ELSE u

RECURSIVE SumSquares(_, _)
SumSquares(buf, n) ==
    IF n = 0 THEN 0
    ELSE SampleAt(buf, n) * SampleAt(buf, n) + SumSquares(buf, n - 1)

\* audioop.rms(chunk, SAMPLE_WIDTH): floor(sqrt(sum of squares / samples))
rms(buf) ==
    LET n == Len(buf) \div SAMPLE_WIDTH
    IN  IF n = 0 THEN 0 ELSE ISqrtFrom(SumSquares(buf, n) \div n, 0)

\* recognizer.py:100  rms > self.dynamic_energy_threshold
LoudForWakeWordAlways(buf, thr) == TRUE
LoudForWakeWord(buf, thr) == rms(buf) * ThrScale > thr

\* recognizer.py:101  min(threshold * 1.001, max_rms_threshold)
GrowThresholdUnclamped(thr) == (thr * 1001) \div 1000
GrowThreshold(thr) ==
    Min((thr * 1001) \div 1000, max_rms_threshold * ThrScale)

\* recognizer.py:109  max(threshold * 0.99, min_rms_threshold)
DecayThreshold(thr) ==
    Max((thr * 99) \div 100, min_rms_threshold * ThrScale)

\* recognizer.py:108  if skipped_frames > 100
QuietStreakOverInclusive(n) == n >= quiet_streak_limit
QuietStreakOver(n) == n > quiet_streak_limit

\* recognizer.py:142  rms > self.dynamic_energy_threshold * 1.1
LoudForPhrase(buf, thr) == rms(buf) * ThrScale * 10 > thr * 11

\* deque(maxlen=n).append(x)
DequeAppendOneShort(dq, x, n) ==
    LET all == Append(dq, x)
    IN  IF Len(all) > n - 1
        THEN SubSeq(all, Len(all) - n + 2, Len(all))
        ELSE all
DequeAppend(dq, x, n) ==
    LET all == Append(dq, x)
    IN  IF Len(all) > n THEN SubSeq(all, Len(all) - n + 1, Len(all)) ELSE all

(***************************************************************************)
(* The device as the loop sees it: source.stream.read(source.CHUNK)        *)
(***************************************************************************)
\* sample levels of the chunks the device delivers when it is not scripted
Levels == {0, 30}

\* what MutableStream.read(CHUNK) returns for a device chunk of this level
\* (mic.py:84-85 and 100-101); the read runs under the stream lock, so the
\* loop's read steps wait for the lock to be free
StreamRead(level) == IF muted THEN muted_buffer ELSE HwData(CHUNK, level)

\* the device delivers a chunk of this level
DeviceDelivers(level) ==
    IF dev_scripted
    THEN IF dev_script # <<>>
         THEN /\ level = Head(dev_script)
              /\ dev_script' = Tail(dev_script)
              /\ UNCHANGED <<dev_scripted, dev_runs, dev_input>>
         ELSE /\ dev_runs # <<>>
              /\ level = Head(dev_runs)[1]
              /\ dev_runs' =
                     IF Head(dev_runs)[2] > 1
                     THEN <<<<level, Head(dev_runs)[2] - 1>>>>
                             \o Tail(dev_runs)
                     ELSE Tail(dev_runs)
              /\ UNCHANGED <<dev_scripted, dev_script, dev_input>>
    ELSE /\ level \in Levels
         /\ UNCHANGED devVars

AllLevels == 0..(30 + PhraseMaxLoudChunks + 2)

(***************************************************************************)
(* PreciseHotword                                                          *)
(***************************************************************************)
\* recognizer.py:85  the buffer that flushes the engine: b'\0' * (25*1024),
\* held as its description rather than as 25600 bytes
FlushBuffer == [zeros |-> 25 * 1024]

\* hotword_factory.py:41-42  on_activation, called by the engine's thread
OnActivation ==
    /\ n_activations < MaxActivations
    /\ has_found' = TRUE
    /\ n_activations' = n_activations + 1
    /\ UNCHANGED <<stop_signaled, listen_triggered, button_press, cfgVars,
                   waitVars, recVars, outVars, devVars, stopHist, n_listens,
                   n_triggers, lpc, streamVars, pollHist>>

(***************************************************************************)
(* ResponsiveRecognizer                                                    *)
(***************************************************************************)
WaitingPcs == {"wait_top", "wait_call", "wait_read", "wait_poll", "wait_found"}
RecordingPcs == {"rec_top", "rec_read", "rec_done"}

\* recognizer.py:77-78  stop()
Stop ==
    /\ ~stop_signaled
    /\ stop_signaled' = TRUE
    /\ stop_pc' = lpc
    /\ stop_listen' = n_listens
    /\ stop_events' = Len(events)
    /\ UNCHANGED <<listen_triggered, has_found, button_press, cfgVars,
                   waitVars, recVars, outVars, devVars, reads_after_stop,
                   countHist, lpc, streamVars, pollHist>>

\* recognizer.py:80-82  trigger_listen()
TriggerListen ==
    /\ n_triggers < MaxTriggers
    /\ listen_triggered' = TRUE
    /\ n_triggers' = n_triggers + 1
    /\ UNCHANGED <<stop_signaled, has_found, button_press, cfgVars, waitVars,
                   recVars, outVars, devVars, stopHist, n_listens,
                   n_activations, lpc, streamVars, pollHist>>

\* the button is pressed: the 'buttonPress' signal appears.  Only
\* _record_phrase looks at the signal, so a press made earlier is the same
\* as one made when the recording begins
PressButton ==
    /\ lpc \in RecordingPcs
    /\ ~button_press
    /\ button_press' = TRUE
    /\ UNCHANGED <<stop_signaled, listen_triggered, has_found, cfgVars,
                   waitVars, recVars, outVars, devVars, stopHist, countHist,
                   lpc, streamVars, pollHist>>

\* recognizer.py:157-158 and 85-91: listen() is called and
\* _wait_until_wake_word flushes the engine and sets up its locals
ListenCall ==
    /\ lpc = "idle"
    /\ n_listens < MaxListens
    /\ n_listens' = n_listens + 1
    /\ ww_stream' = <<FlushBuffer>>
    /\ last_chunks' = <<>>
    /\ skipped_frames' = 0
    /\ frame_idx' = 0
    /\ chunk' = <<>>
    /\ found' = FALSE
    /\ wait_reads' = <<>>
    /\ trig_reads' = 0
    /\ listen_result' = "pending"
    /\ utterance' = <<>>
    /\ button_at_check' = FALSE
    /\ lpc' = "wait_top"
    /\ UNCHANGED <<flagVars, cfgVars, dynamic_energy_threshold, num_chunks,
                   num_loud_chunks, num_silent_chunks, all_chunks,
                   phrase_reads, events, devVars, stopHist, n_triggers,
                   n_activations, streamVars, pollHist>>

\* recognizer.py:92  while not self._stop_signaled
WaitStopTestNever == FALSE
WaitStopTest == stop_signaled

\* recognizer.py:92-93  the loop test, then frame_idx += 1
WaitTest ==
    /\ lpc = "wait_top"
    /\ IF WaitStopTest
       THEN /\ lpc' = "listen_check"
            /\ UNCHANGED frame_idx
       ELSE /\ dev_scripted \/ frame_idx < MaxFrames
            /\ frame_idx' = frame_idx + 1
            /\ lpc' = "wait_call"
    /\ UNCHANGED <<flagVars, cfgVars, dynamic_energy_threshold,
                   skipped_frames, last_chunks, ww_stream, chunk, found,
                   wait_reads, trig_reads, recVars, outVars,
                   devVars, stopHist, countHist, streamVars, pollHist>>

\* recognizer.py:94  source.stream.read(source.CHUNK) is called
WaitReadStart ==
    /\ lpc = "wait_call"
    /\ lpc' = "wait_read"
    /\ reads_after_stop' = reads_after_stop + (IF stop_signaled THEN 1 ELSE 0)
    /\ UNCHANGED <<flagVars, cfgVars, waitVars, recVars, outVars, devVars,
                   stop_pc, stop_listen, stop_events, countHist,
                   streamVars, pollHist>>

\* recognizer.py:94-110  the read returns; gate the chunk on the threshold
WaitReadReturn(level) ==
    /\ lpc = "wait_read"
    /\ read_lock = "none"
    /\ DeviceDelivers(level)
    /\ chunk' = StreamRead(level)
    /\ wait_reads' =
           IF Len(wait_reads) < MaxHistory
           THEN Append(wait_reads, <<chunk', dynamic_energy_threshold>>)
           ELSE wait_reads
    /\ trig_reads' = trig_reads + (IF listen_triggered THEN 1 ELSE 0)
    /\ IF LoudForWakeWord(chunk', dynamic_energy_threshold)
       THEN /\ dynamic_energy_threshold' =
                   GrowThreshold(dynamic_energy_threshold)
            /\ skipped_frames' = 0
            /\ last_chunks' =
                   IF save_wake_words
                   THEN DequeAppend(last_chunks, chunk', last_chunks_maxlen)
                   ELSE last_chunks
            /\ ww_stream' =
                   IF Len(wait_reads) < MaxHistory
                   THEN Append(ww_stream, chunk')
                   ELSE ww_stream
       ELSE /\ IF QuietStreakOver(skipped_frames + 1)
               THEN /\ dynamic_energy_threshold' =
                           DecayThreshold(dynamic_energy_threshold)
                    /\ skipped_frames' = 0
               ELSE /\ skipped_frames' = skipped_frames + 1
                    /\ UNCHANGED dynamic_energy_threshold
            /\ UNCHANGED <<last_chunks, ww_stream>>
    /\ lpc' = "wait_poll"
    /\ UNCHANGED <<flagVars, cfgVars, frame_idx, found, recVars, outVars,
                   stopHist,
                   countHist, streamVars, pollHist>>

\* recognizer.py:112 calls found_wake_word(); hotword_factory.py:57 tests
\* self.has_found
WaitPoll ==
    /\ lpc = "wait_poll"
    /\ found' = has_found
    /\ lpc' = "wait_found"
    /\ UNCHANGED <<flagVars, cfgVars, dynamic_energy_threshold,
                   skipped_frames, frame_idx, last_chunks, ww_stream, chunk,
                   wait_reads, trig_reads, recVars, outVars, devVars,
                   stopHist, countHist, streamVars, pollHist>>

\* hotword_factory.py:57-58  if self.has_found: self.has_found = False
FoundWakeWordNoReset == has_found
FoundWakeWordReset == IF found THEN FALSE ELSE has_found

\* recognizer.py:112  found_wake_word() or self._listen_triggered
WakeWordOnly == found
WakeWordOrTrigger == found \/ listen_triggered

\* hotword_factory.py:58-60  found_wake_word() resets the flag when it saw
\* it set and returns; recognizer.py:112-126  on a detection or with the
\* trigger flag set, emit the wakeword event and return
WaitFound ==
    /\ lpc = "wait_found"
    /\ has_found' = FoundWakeWordReset
    /\ n_true_polls' = n_true_polls + (IF found THEN 1 ELSE 0)
    /\ last_poll' = <<found, n_activations>>
    /\ prev_poll' = last_poll
    /\ IF WakeWordOrTrigger
       THEN /\ events' = Append(events, "wakeword")
            /\ lpc' = "listen_check"
       ELSE /\ lpc' = "wait_top"
            /\ UNCHANGED events
    /\ UNCHANGED <<stop_signaled, listen_triggered, button_press, cfgVars,
                   waitVars, recVars, listen_result, utterance, devVars,
                   stopHist, countHist, streamVars>>

\* recognizer.py:159  if self._stop_signaled: return
ListenStopTestNever == FALSE
ListenStopTest == stop_signaled

\* recognizer.py:159-166 and 131-134: return when stopped, else emit
\* record_begin and enter _record_phrase
ListenCheck ==
    /\ lpc = "listen_check"
    /\ IF ListenStopTest
       THEN /\ listen_result' = "none"
            /\ lpc' = "idle"
            /\ UNCHANGED <<events, recVars>>
       ELSE /\ events' = Append(events, "record_begin")
            /\ num_chunks' = 0
            /\ num_loud_chunks' = 0
            /\ num_silent_chunks' = 0
            /\ all_chunks' = <<>>
            /\ phrase_reads' = <<>>
            /\ button_at_check' = FALSE
            /\ lpc' = "rec_top"
            /\ UNCHANGED listen_result
    /\ UNCHANGED <<flagVars, cfgVars, waitVars, utterance, devVars, stopHist,
                   countHist, streamVars, pollHist>>

\* recognizer.py:135  while num_chunks < self.max_loud_chunks
RecContinueInclusive(n) == n <= max_loud_chunks
RecContinueUnlessStopped(n) == n < max_loud_chunks /\ ~stop_signaled
RecContinue(n) == n < max_loud_chunks

\* recognizer.py:135-137  the loop test, num_chunks += 1, the read is called
RecTest ==
    /\ lpc = "rec_top"
    /\ IF RecContinue(num_chunks)
       THEN /\ num_chunks' = num_chunks + 1
            /\ reads_after_stop' =
                   reads_after_stop + (IF stop_signaled THEN 1 ELSE 0)
            /\ lpc' = "rec_read"
       ELSE /\ lpc' = "rec_done"
            /\ UNCHANGED <<num_chunks, reads_after_stop>>
    /\ UNCHANGED <<flagVars, cfgVars, waitVars, num_loud_chunks,
                   num_silent_chunks, all_chunks, phrase_reads,
                   button_at_check, outVars, devVars, stop_pc,
                   stop_listen, stop_events, countHist, streamVars,
                   pollHist>>

\* recognizer.py:148  if num_loud_chunks > self.max_loud_chunks: break
TooLoud(nl) == nl > max_loud_chunks

\* recognizer.py:150  enough speech followed by enough silence
PhraseCompleteInclusive(nl, ns) ==
    nl >= min_loud_chunks /\ ns >= min_silent_chunks
PhraseCompleteOrSilenceTimeout(nl, ns) ==
    \/ nl > min_loud_chunks /\ ns > min_silent_chunks
    \/ num_chunks > max_chunks_of_silence
PhraseComplete(nl, ns) == nl > min_loud_chunks /\ ns > min_silent_chunks

\* recognizer.py:153  check_for_signal('buttonPress'): true when the signal
\* is present (and the signal is consumed)
CheckForSignalNever == FALSE
CheckForSignal == button_press

\* recognizer.py:137-154  the read returns; count the chunk and decide
RecReadReturn(level) ==
    /\ lpc = "rec_read"
    /\ read_lock = "none"
    /\ DeviceDelivers(level)
    /\ LET rchunk == StreamRead(level)
           loud == LoudForPhrase(rchunk, dynamic_energy_threshold)
           nl == IF loud THEN num_loud_chunks + 1 ELSE num_loud_chunks
           ns == IF loud THEN 0 ELSE num_silent_chunks + 1
       IN  /\ all_chunks' = DequeAppend(all_chunks, rchunk, max_loud_chunks)
           /\ phrase_reads' = Append(phrase_reads, rchunk)
           /\ num_loud_chunks' = nl
           /\ num_silent_chunks' = ns
           /\ IF TooLoud(nl) \/ PhraseComplete(nl, ns)
              THEN /\ lpc' = "rec_done"
                   /\ UNCHANGED <<button_press, button_at_check>>
              ELSE /\ button_at_check' = button_press
                   /\ button_press' = FALSE
                   /\ lpc' = IF CheckForSignal THEN "rec_done" ELSE "rec_top"
    /\ UNCHANGED <<stop_signaled, listen_triggered, has_found, cfgVars,
                   waitVars, num_chunks, outVars, stopHist, countHist,
                   streamVars, pollHist>>

\* recognizer.py:155 and 170-182: join the chunks, emit record_end, return
RecReturn ==
    /\ lpc = "rec_done"
    /\ utterance' = Join(all_chunks)
    /\ events' = Append(events, "record_end")
    /\ listen_result' = "audio"
    /\ lpc' = "idle"
    /\ UNCHANGED <<flagVars, cfgVars, waitVars, recVars, devVars, stopHist,
                   countHist, streamVars, pollHist>>

(***************************************************************************)
(* Initial states and specifications                                       *)
(***************************************************************************)
\* MutableMicrophone._start with self.muted = m: MutableStream.__init__
\* (lines 43-53) on a freshly opened, running hardware stream
StreamInit(m) ==
    /\ mic_muted = m
    /\ muted = m
    /\ wrapped_stream = IF m THEN "stopped" ELSE "active"
    /\ read_lock = "none"
    /\ cpc = [c \in Controllers |-> "idle"]
    /\ rpc = "idle"
    /\ size = 0
    /\ remaining = 0
    /\ frames = <<>>
    /\ result = <<>>
    /\ ret_kind = "none"
    /\ hw_log = <<>>
    /\ slept = FALSE
    /\ muted_at_start = FALSE
    /\ hw_read_stopped = FALSE
    /\ mic_stream = "open"
    /\ rst_pc = "idle"
    /\ new_muted = FALSE
    /\ n_restarts = 0
    /\ muted_before = m
    /\ window_call = FALSE
    /\ outside_call = FALSE
    /\ since_restart = FALSE
    /\ waited_read = [c \in Controllers |-> FALSE]

\* ResponsiveRecognizer.__init__ (recognizer.py:32-75) and
\* PreciseHotword.__init__ (hotword_factory.py:38)
RecognizerInit(maxLoud, save) ==
    /\ stop_signaled = FALSE
    /\ listen_triggered = FALSE
    /\ has_found = FALSE
    /\ button_press = FALSE
    /\ max_loud_chunks = maxLoud
    /\ max_chunks_of_silence = LoopMaxChunksOfSilence
    /\ save_wake_words = save
    /\ dynamic_energy_threshold = initial_energy_threshold * ThrScale
    /\ lpc = "idle"
    /\ skipped_frames = 0
    /\ frame_idx = 0
    /\ last_chunks = <<>>
    /\ ww_stream = <<>>
    /\ chunk = <<>>
    /\ found = FALSE
    /\ wait_reads = <<>>
    /\ trig_reads = 0
    /\ n_true_polls = 0
    /\ last_poll = <<FALSE, 0>>
    /\ prev_poll = <<FALSE, 0>>
    /\ num_chunks = 0
    /\ num_loud_chunks = 0
    /\ num_silent_chunks = 0
    /\ all_chunks = <<>>
    /\ events = <<>>
    /\ listen_result = "none"
    /\ utterance = <<>>
    /\ n_listens = 0
    /\ n_triggers = 0
    /\ n_activations = 0
    /\ stop_pc = "unset"
    /\ stop_listen = 0
    /\ stop_events = 0
    /\ reads_after_stop = 0
    /\ phrase_reads = <<>>
    /\ button_at_check = FALSE

DeviceFree ==
    /\ dev_scripted = FALSE
    /\ dev_script = <<>>
    /\ dev_runs = <<>>
    /\ dev_input = <<>>

StreamSpecInit ==
    /\ \E m \in BOOLEAN : StreamInit(m)
    /\ RecognizerInit(LoopMaxLoudChunks, FALSE)
    /\ DeviceFree

StreamNext ==
    \/ \E c \in Controllers : MicMute(c)
    \/ \E c \in Controllers : MuteCheck(c)
    \/ \E c \in Controllers : MuteAcquire(c)
    \/ \E c \in Controllers : MuteSet(c)
    \/ \E c \in Controllers : MuteStop(c)
    \/ \E c \in Controllers : MicUnmute(c)
    \/ \E c \in Controllers : UnmuteCheck(c)
    \/ \E c \in Controllers : UnmuteAcquire(c)
    \/ \E c \in Controllers : UnmuteSet(c)
    \/ \E c \in Controllers : UnmuteStart(c)
    \/ \E n \in 0..MaxReadSize : ReadCall(n)
    \/ ReadAcquire
    \/ ReadLoop
    \/ ReadAvail
    \/ ReadReturn

SpecStream == StreamSpecInit /\ [][StreamNext]_vars

\* what a mute() or unmute() call does once it is made, but for taking the
\* stream lock
ControllerRuns(c) ==
    \/ MuteCheck(c)
    \/ MuteSet(c)
    \/ MuteStop(c)
    \/ UnmuteCheck(c)
    \/ UnmuteSet(c)
    \/ UnmuteStart(c)

\* a thread parked at `with self.read_lock:` gets the lock
ControllerLocks(c) == MuteAcquire(c) \/ UnmuteAcquire(c)

\* what a read() call does once it is made, but for taking the stream lock
ReaderRuns == ReadLoop \/ ReadAvail \/ ReadReturn

\* mic.py:87-95  the device has frames available and the read takes them
ReadDelivers == ReadAvail /\ remaining' < remaining

\* every thread inside a call keeps running, a thread that waits for the
\* stream lock gets it when the lock keeps being released, and the device
\* eventually delivers the frames a read polls for
FairSpecStream ==
    /\ SpecStream
    /\ \A c \in Controllers :
          WF_vars(ControllerRuns(c)) /\ SF_vars(ControllerLocks(c))
    /\ WF_vars(ReaderRuns)
    /\ SF_vars(ReadAcquire)
    /\ SF_vars(ReadDelivers)

\* threads calling MutableMicrophone.mute / unmute while another thread
\* calls restart()
RestartNext ==
    \/ \E c \in Controllers : MicMute(c)
    \/ \E c \in Controllers : MuteCheck(c)
    \/ \E c \in Controllers : MuteAcquire(c)
    \/ \E c \in Controllers : MuteSet(c)
    \/ \E c \in Controllers : MuteStop(c)
    \/ \E c \in Controllers : MicUnmute(c)
    \/ \E c \in Controllers : UnmuteCheck(c)
    \/ \E c \in Controllers : UnmuteAcquire(c)
    \/ \E c \in Controllers : UnmuteSet(c)
    \/ \E c \in Controllers : UnmuteStart(c)
    \/ \E c \in Controllers : StaleReturn(c)
    \/ RestartCall
    \/ RestartClose
    \/ RestartDrop
    \/ RestartOpen
    \/ RestartConstruct

SpecRestart == StreamSpecInit /\ [][RestartNext]_vars

\* the listening loop on an open, unmuted microphone
Init ==
    /\ StreamInit(FALSE)
    /\ RecognizerInit(LoopMaxLoudChunks, TRUE)
    /\ DeviceFree

LoopStep ==
    \/ ListenCall
    \/ WaitTest
    \/ WaitReadStart
    \/ \E level \in Levels : WaitReadReturn(level)
    \/ WaitPoll
    \/ WaitFound
    \/ ListenCheck
    \/ RecTest
    \/ \E level \in Levels : RecReadReturn(level)
    \/ RecReturn

Next ==
    \/ LoopStep
    \/ Stop
    \/ TriggerListen
    \/ OnActivation
    \/ PressButton

Spec == Init /\ [][Next]_vars

\* the loop thread keeps running and the device keeps delivering
FairSpec == Spec /\ WF_vars(LoopStep)

\* what the device delivers in the waiting-phase specifications.  Short
\* runs: chunks just above the initial threshold; a quiet streak broken by
\* one loud chunk; alternating loud and quiet chunks
ShortRuns ==
    { <<<<14, MixedRun>>>>,
      <<<<0, quiet_streak_limit>>, <<45, 1>>,
        <<0, quiet_streak_limit + 1>>, <<45, 1>>, <<0, 1>>>>,
      <<<<30, 1>>, <<0, 1>>, <<14, 2>>, <<13, 2>>, <<30, 1>>>> }

\* long runs: chunks louder than the ceiling; silence; loud to the ceiling,
\* then silence
LongRuns ==
    { <<<<45, LoudRun>>>>,
      <<<<0, QuietRun>>>>,
      <<<<45, LoudRun>>, <<0, quiet_streak_limit + 2>>>> }

\* the first listen() call on an open, unmuted microphone, with no other
\* thread calling in
WaitInitWith(runs) ==
    /\ StreamInit(FALSE)
    /\ RecognizerInit(LoopMaxLoudChunks, TRUE)
    /\ dev_scripted = TRUE
    /\ dev_script = <<>>
    /\ dev_runs \in runs
    /\ dev_input = <<>>

WaitInit == WaitInitWith(ShortRuns \cup LongRuns)
FeedInit == WaitInitWith(ShortRuns)

WaitNext ==
    \/ ListenCall
    \/ WaitTest
    \/ WaitReadStart
    \/ \E level \in AllLevels : WaitReadReturn(level)
    \/ WaitPoll
    \/ WaitFound

\* the waiting phase over the short and the long runs
SpecWait == WaitInit /\ [][WaitNext]_vars

\* the waiting phase over the short runs, within the reach of the history
SpecFeed == FeedInit /\ [][WaitNext]_vars

\* a scripted phrase stream: N loud chunks, each of its own level, then M
\* quiet chunks, each of its own level
PhraseScript(N, M) ==
    [i \in 1..(N + M) |-> IF i <= N THEN 30 + i ELSE (i - N) % 15]

\* _record_phrase has just been entered by the first listen() call: one
\* quiet chunk was read in the waiting phase, trigger_listen() had been
\* called, the wakeword and record_begin events are out
RecordingEntered(maxLoud) ==
    /\ stop_signaled = FALSE
    /\ listen_triggered = TRUE
    /\ has_found = FALSE
    /\ button_press = FALSE
    /\ max_loud_chunks = maxLoud
    /\ save_wake_words = FALSE
    /\ dynamic_energy_threshold = initial_energy_threshold * ThrScale
    /\ lpc = "rec_top"
    /\ skipped_frames = 1
    /\ frame_idx = 1
    /\ last_chunks = <<>>
    /\ ww_stream = <<FlushBuffer>>
    /\ chunk = HwData(CHUNK, 0)
    /\ found = FALSE
    /\ wait_reads = <<<<chunk, dynamic_energy_threshold>>>>
    /\ trig_reads = 1
    /\ n_true_polls = 0
    /\ last_poll = <<FALSE, 0>>
    /\ prev_poll = <<FALSE, 0>>
    /\ num_chunks = 0
    /\ num_loud_chunks = 0
    /\ num_silent_chunks = 0
    /\ all_chunks = <<>>
    /\ events = <<"wakeword", "record_begin">>
    /\ listen_result = "pending"
    /\ utterance = <<>>
    /\ n_listens = 1
    /\ n_triggers = 1
    /\ n_activations = 0
    /\ stop_pc = "unset"
    /\ stop_listen = 0
    /\ stop_events = 0
    /\ reads_after_stop = 0
    /\ phrase_reads = <<>>
    /\ button_at_check = FALSE

\* the recording phase over scripted chunk streams
PhraseInit ==
    /\ StreamInit(FALSE)
    /\ RecordingEntered(PhraseMaxLoudChunks)
    /\ max_chunks_of_silence = ShortSilenceTimeout
    /\ dev_scripted = TRUE
    /\ \E N \in 0..(PhraseMaxLoudChunks + 1), M \in 0..MaxQuietTail :
         dev_script = PhraseScript(N, M)
    /\ dev_runs = <<>>
    /\ dev_input = dev_script

PhraseNext ==
    \/ RecTest
    \/ \E level \in AllLevels : RecReadReturn(level)
    \/ RecReturn
    \/ PressButton

SpecPhrase == PhraseInit /\ [][PhraseNext]_vars

\* the recording phase over every stream of loud and quiet chunks, for a
\* silence timeout below max_loud_chunks
SilenceInit ==
    /\ StreamInit(FALSE)
    /\ RecordingEntered(PhraseMaxLoudChunks)
    /\ max_chunks_of_silence \in {ShortSilenceTimeout, LongSilenceTimeout}
    /\ DeviceFree

SilenceNext ==
    \/ RecTest
    \/ \E level \in Levels : RecReadReturn(level)
    \/ RecReturn
    \/ PressButton

SpecSilence == SilenceInit /\ [][SilenceNext]_vars

\* the recording phase while other threads call MutableMicrophone.mute()
\* and unmute()
MutePhraseInit ==
    /\ StreamInit(FALSE)
    /\ RecordingEntered(LoopMaxLoudChunks)
    /\ max_chunks_of_silence = LoopMaxChunksOfSilence
    /\ DeviceFree

MutePhraseNext ==
    \/ RecTest
    \/ \E level \in Levels : RecReadReturn(level)
    \/ RecReturn
    \/ PressButton
    \/ \E c \in Controllers : MicMute(c)
    \/ \E c \in Controllers : MuteCheck(c)
    \/ \E c \in Controllers : MuteAcquire(c)
    \/ \E c \in Controllers : MuteSet(c)
    \/ \E c \in Controllers : MuteStop(c)
    \/ \E c \in Controllers : MicUnmute(c)
    \/ \E c \in Controllers : UnmuteCheck(c)
    \/ \E c \in Controllers : UnmuteAcquire(c)
    \/ \E c \in Controllers : UnmuteSet(c)
    \/ \E c \in Controllers : UnmuteStart(c)

SpecMutePhrase == MutePhraseInit /\ [][MutePhraseNext]_vars

(***************************************************************************)
(* Properties                                                              *)
(***************************************************************************)
Last(seq) == seq[Len(seq)]

\* the last n elements of seq
Suffix(seq, n) == SubSeq(seq, Len(seq) - n + 1, Len(seq))

\* C1 (SpecStream): a read that finds the stream muted (line 84) returns
\* the zero-filled placeholder of SAMPLE_WIDTH bytes, whatever size was asked
\* for, and has made no hardware read and no sleep; a read that got the lock
\* with the stream muted never holds or returns a byte of the hardware.
C1_MutedReadReturnsPlaceholder ==
    /\ ret_kind = "muted" =>
          /\ result = Zeros(SAMPLE_WIDTH)
          /\ Len(result) = SAMPLE_WIDTH
          /\ hw_log = <<>>
          /\ ~slept
          /\ muted_at_start
    /\ (muted_at_start /\ (rpc # "idle" \/ ret_kind # "none")) =>
          /\ hw_log = <<>>
          /\ frames = <<>>
          /\ ret_kind = "audio" => result = <<>>

\* C1 witness: a read of more than one frame returned the placeholder
\* while a controller was in the middle of an unmute() call.
C1_Witness ==
    /\ ret_kind = "muted"
    /\ rpc = "idle"
    /\ size * SAMPLE_WIDTH > Len(result)
    /\ \E c \in Controllers : cpc[c] = "unmute_acquire"

InCritical(t) ==
    IF t = Reader
    THEN rpc \in {"loop", "avail"}
    ELSE cpc[t] \in {"mute_set", "mute_stop", "unmute_set", "unmute_start"}

\* C2 (SpecStream): at most one thread is inside a critical section of
\* mute(), unmute() or read(), the lock is held by that thread, and when the
\* read is about to inspect the muted flag the flag is true exactly when the
\* hardware stream is stopped.
C2_CriticalSectionsExclusive ==
    /\ \A t1, t2 \in Controllers \cup {Reader} :
          (InCritical(t1) /\ InCritical(t2)) => t1 = t2
    /\ \A t \in Controllers \cup {Reader} : InCritical(t) => read_lock = t
    /\ (rpc = "loop" /\ remaining > 0) =>
          (muted <=> wrapped_stream = "stopped")

\* C2 witness: the read inspects the flag of a muted, stopped stream while
\* both controllers wait for the lock, one to mute and one to unmute.
C2_Witness ==
    /\ rpc = "loop"
    /\ remaining > 0
    /\ muted
    /\ wrapped_stream = "stopped"
    /\ \E c1, c2 \in Controllers :
          cpc[c1] = "mute_acquire" /\ cpc[c2] = "unmute_acquire"

\* C3 (Spec): in the sequence of emitted events every record_begin has a
\* wakeword before it with no record_begin or record_end in between, and
\* every record_end has a record_begin before it with no other record_begin
\* or record_end in between.
C3_EventOrder ==
    \A i \in 1..Len(events) :
       /\ events[i] = "record_begin" =>
             \E j \in 1..(i - 1) :
                /\ events[j] = "wakeword"
                /\ \A k \in (j + 1)..(i - 1) :
                      events[k] \notin {"record_begin", "record_end"}
       /\ events[i] = "record_end" =>
             \E j \in 1..(i - 1) :
                /\ events[j] = "record_begin"
                /\ \A k \in (j + 1)..(i - 1) :
                      events[k] \notin {"record_begin", "record_end"}

\* C3 witness: two complete phrases were announced.
C3_Witness ==
    events = <<"wakeword", "record_begin", "record_end",
               "wakeword", "record_begin", "record_end">>

StoppedInWaiting == stop_signaled /\ stop_pc \in WaitingPcs
StoppedInRecording == stop_signaled /\ stop_pc \in RecordingPcs

\* C4 as claimed (Spec): once stop() has run during the waiting phase no
\* device read is started any more.
C4_NoReadStartedAfterStop == StoppedInWaiting => reads_after_stop = 0

\* C4 as amended (FairSpec): once stop() has run during the waiting phase
\* the only device read that can still start is the one of an iteration that
\* had passed its loop test (line 92) and not yet called read (line 94) when
\* the flag was set; and listen() returns.
C4_AtMostThePendingReadAfterStop ==
    /\ [](StoppedInWaiting =>
             reads_after_stop <= (IF stop_pc = "wait_call" THEN 1 ELSE 0))
    /\ (StoppedInWaiting ~> (lpc = "idle" /\ listen_result = "none"))

\* C4 witness: stop() ran while a read was in flight, and listen() returned.
C4_Witness ==
    /\ StoppedInWaiting
    /\ stop_pc = "wait_read"
    /\ n_listens = stop_listen
    /\ lpc = "idle"
    /\ listen_result = "none"

\* C5 as claimed (Spec): once stop() has run during the waiting phase no
\* event is emitted any more.
C5_NoEventAfterStop == StoppedInWaiting => Len(events) = stop_events

\* C5 as amended (Spec): once stop() has run during the waiting phase no
\* record_begin and no record_end is emitted, and at most one wakeword is:
\* by the iteration that had passed its loop test when the flag was set.
C5_OnlyOneWakewordAfterStop ==
    StoppedInWaiting =>
       /\ Len(events) <= stop_events + 1
       /\ \A i \in (stop_events + 1)..Len(events) : events[i] = "wakeword"
       /\ Len(events) > stop_events => stop_pc # "wait_top"

\* C5 witness: stop() ran while a read was in flight, a wakeword was emitted
\* after it and listen() returned without recording.
C5_Witness ==
    /\ StoppedInWaiting
    /\ stop_pc = "wait_read"
    /\ Len(events) = stop_events + 1
    /\ Last(events) = "wakeword"
    /\ lpc = "idle"

NumWakewords == Cardinality({i \in 1..Len(events) : events[i] = "wakeword"})

\* C7 as claimed (Spec): the trigger flag is cleared when a recording phase
\* completes, so one trigger_listen() call causes at most one wakeword
\* event: there are never more wakeword events than trigger_listen() calls
\* and engine activations together.
C7_OneWakewordPerTrigger == NumWakewords <= n_triggers + n_activations

ScriptLoudCount ==
    Cardinality({i \in 1..Len(dev_input) : dev_input[i] > 30})
ScriptQuietCount == Len(dev_input) - ScriptLoudCount

\* _record_phrase returned, or it waits for a chunk the script does not have
PhraseSettled ==
    \/ lpc = "idle"
    \/ (lpc = "rec_read" /\ dev_script = <<>>)

\* C8 as claimed (SpecPhrase): for a stream of N loud then M quiet chunks,
\* N + M below max_loud_chunks and no button press, the phrase completes on
\* the last chunk iff N >= min_loud_chunks and M >= min_silent_chunks.
C8_CompletesIffAtLeastMinimum ==
    (dev_scripted /\ PhraseSettled /\ ~button_at_check
       /\ ScriptLoudCount + ScriptQuietCount < max_loud_chunks) =>
       ((lpc = "idle" /\ Len(phrase_reads) = Len(dev_input))
          <=> (ScriptLoudCount >= min_loud_chunks
                 /\ ScriptQuietCount >= min_silent_chunks))

\* C8 as amended (SpecPhrase): for such a stream the phrase completes iff
\* N > min_loud_chunks and M > min_silent_chunks, and it completes on quiet
\* chunk number min_silent_chunks + 1 (the last chunk when
\* M = min_silent_chunks + 1), having read N + min_silent_chunks + 1 chunks.
C8_CompletesIffMoreThanMinimum ==
    (dev_scripted /\ PhraseSettled /\ ~button_at_check
       /\ ScriptLoudCount + ScriptQuietCount < max_loud_chunks) =>
       /\ (lpc = "idle")
             <=> (ScriptLoudCount > min_loud_chunks
                    /\ ScriptQuietCount > min_silent_chunks)
       /\ lpc = "idle" =>
             Len(phrase_reads) = ScriptLoudCount + min_silent_chunks + 1

\* C8 witness: min_loud_chunks + 1 loud chunks and min_silent_chunks + 1
\* quiet chunks completed the phrase on the last chunk.
C8_Witness ==
    /\ dev_scripted
    /\ lpc = "idle"
    /\ ~button_at_check
    /\ ScriptLoudCount = min_loud_chunks + 1
    /\ ScriptQuietCount = min_silent_chunks + 1
    /\ Len(dev_input) < max_loud_chunks
    /\ Len(phrase_reads) = Len(dev_input)

AllReadsLoud ==
    \A i \in 1..Len(phrase_reads) :
       LoudForPhrase(phrase_reads[i], dynamic_energy_threshold)

\* C9 (SpecPhrase): while every chunk read is loud and no button press is
\* seen, the phrase ends only when max_loud_chunks chunks have been read,
\* never more are read, and the returned buffer is those chunks, each once,
\* in the order read.
C9_AllLoudEndsAtHardTimeout ==
    /\ Len(phrase_reads) <= max_loud_chunks
    /\ (AllReadsLoud /\ ~button_at_check /\ lpc \in {"rec_done", "idle"}) =>
          /\ Len(phrase_reads) = max_loud_chunks
          /\ num_chunks = max_loud_chunks
          /\ all_chunks = phrase_reads
          /\ lpc = "idle" =>
                /\ utterance = Join(phrase_reads)
                /\ Len(utterance) = max_loud_chunks * CHUNK * SAMPLE_WIDTH

\* C9 witness: an all-loud stream longer than max_loud_chunks was recorded
\* and one chunk of it was left unread.
C9_Witness ==
    /\ dev_scripted
    /\ lpc = "idle"
    /\ AllReadsLoud
    /\ ~button_at_check
    /\ ScriptQuietCount = 0
    /\ Len(dev_script) = 1
    /\ Len(phrase_reads) = max_loud_chunks

\* C10 (SpecPhrase): when the button-press signal is present at the check
\* that follows a chunk (line 153), no further chunk is read, whatever the
\* loud and silent counts are, and the returned utterance ends with the
\* chunk read on that iteration.
C10_ButtonPressEndsPhrase ==
    button_at_check =>
       /\ lpc \in {"rec_done", "idle"}
       /\ phrase_reads # <<>>
       /\ all_chunks # <<>>
       /\ Last(all_chunks) = Last(phrase_reads)
       /\ lpc = "idle" =>
             /\ listen_result = "audio"
             /\ Len(utterance) >= Len(Last(phrase_reads))
             /\ Suffix(utterance, Len(Last(phrase_reads)))
                   = Last(phrase_reads)

\* C10 witness: the button ended a phrase that had neither enough loud
\* chunks nor any silence, well before the hard timeout.
C10_Witness ==
    /\ button_at_check
    /\ lpc = "idle"
    /\ num_loud_chunks = 2
    /\ num_silent_chunks = 0
    /\ Len(phrase_reads) = 2
    /\ Len(dev_script) > 0

\* C11 (SpecPhrase): the bounded history of _record_phrase never evicts a
\* chunk: at every point it holds every chunk read in this phrase, in the
\* order read, one per loop iteration; and on every way out of the loop
\* (enough speech then silence, max_loud_chunks chunks, button press) the
\* returned utterance is the concatenation of all of them, the chunk that
\* ended the phrase included.
C11_UtteranceIsEveryChunkRead ==
    /\ all_chunks = phrase_reads
    /\ lpc \in {"rec_top", "rec_done", "idle"} => Len(phrase_reads) = num_chunks
    /\ lpc = "idle" => utterance = Join(phrase_reads)

\* C11 witness: a phrase ended by silence after speech, one chunk short of
\* the hard timeout, and was returned whole.
C11_Witness ==
    /\ lpc = "idle"
    /\ ~button_at_check
    /\ num_loud_chunks > min_loud_chunks
    /\ num_silent_chunks = min_silent_chunks + 1
    /\ num_chunks = max_loud_chunks - 1
    /\ utterance = Join(phrase_reads)
    /\ Len(phrase_reads) = num_chunks

Floor == min_rms_threshold * ThrScale
Ceiling == max_rms_threshold * ThrScale

\* the step on which a read of the waiting phase returns (lines 94-110)
WaitChunkStep == lpc = "wait_read" /\ lpc' = "wait_poll"

\* C12 (SpecWait): the threshold always lies between the floor and the
\* ceiling, and the step that processes a loud chunk of the waiting phase
\* never lowers it.
C12_ThresholdWithinBounds ==
    /\ [](Floor <= dynamic_energy_threshold
            /\ dynamic_energy_threshold <= Ceiling)
    /\ [][(WaitChunkStep
             /\ LoudForWakeWord(chunk', dynamic_energy_threshold))
           => dynamic_energy_threshold' >= dynamic_energy_threshold]_vars

\* C12 witness: a loud chunk was processed with the threshold already at
\* the ceiling.
C12_Witness ==
    /\ lpc = "wait_poll"
    /\ dynamic_energy_threshold = Ceiling
    /\ skipped_frames = 0
    /\ frame_idx > LoudRun - 2
    /\ LoudForWakeWord(chunk, Ceiling)

\* the last n reads of the history were quiet against one and the same
\* threshold thr
QuietStreak(hist, n, thr) ==
    /\ Len(hist) >= n
    /\ \A i \in (Len(hist) - n + 1)..Len(hist) :
          /\ hist[i][2] = thr
          /\ ~LoudForWakeWord(hist[i][1], thr)

\* C13 (SpecWait): the threshold is lowered only by the step that processes
\* the quiet chunk number quiet_streak_limit + 1 of a streak of consecutive
\* quiet chunks with no loud chunk and no decay in between, and that step
\* restarts the streak; a loud chunk sets the streak count to zero; the
\* lowered threshold is never below the floor.
C13_DecayOnlyAfterQuietStreak ==
    /\ [](skipped_frames <= quiet_streak_limit
            /\ dynamic_energy_threshold >= Floor)
    /\ [][dynamic_energy_threshold' < dynamic_energy_threshold =>
             /\ WaitChunkStep
             /\ skipped_frames = quiet_streak_limit
             /\ skipped_frames' = 0
             /\ dynamic_energy_threshold' >= Floor
             /\ Len(wait_reads) < MaxHistory =>
                   QuietStreak(wait_reads', quiet_streak_limit + 1,
                               dynamic_energy_threshold)]_vars
    /\ [][(WaitChunkStep
             /\ LoudForWakeWord(chunk', dynamic_energy_threshold))
           => skipped_frames' = 0]_vars

\* C13 witness: a loud chunk broke a streak of quiet_streak_limit quiet
\* chunks, and the threshold was lowered by quiet chunk number
\* quiet_streak_limit + 1 of the streak that followed.
C13_Witness ==
    /\ lpc = "wait_poll"
    /\ skipped_frames = 0
    /\ frame_idx = 2 * quiet_streak_limit + 2
    /\ Len(ww_stream) = 2
    /\ dynamic_energy_threshold
          = DecayThreshold(GrowThreshold(initial_energy_threshold * ThrScale))

\* a read of the history whose score exceeded the threshold in force
ScoreExceeded(e) == rms(e[1]) * ThrScale > e[2]

\* the chunks of the reads of the history whose score exceeded the
\* threshold in force when they were read, in the order read
LoudReads(hist) ==
    LET sel == SelectSeq(hist, ScoreExceeded)
    IN  [i \in 1..Len(sel) |-> sel[i][1]]

\* C14 as claimed (SpecFeed): the buffers passed to update() during a
\* waiting phase are exactly the chunks read from the device whose score
\* exceeded the threshold in force, in arrival order, and nothing else.
C14_FedExactlyTheLoudChunks ==
    n_listens > 0 => ww_stream = LoudReads(wait_reads)

\* C14 as amended (SpecFeed): the buffers passed to update() during a
\* waiting phase are the flush buffer of 25 * 1024 zero bytes (line 85),
\* once and first, and then exactly the chunks read from the device whose
\* score exceeded the threshold in force when they were read, in arrival
\* order.
C14_FedFlushThenTheLoudChunks ==
    n_listens > 0 => ww_stream = <<FlushBuffer>> \o LoudReads(wait_reads)

\* C14 witness: of a run of equal chunks the first ones were fed, and
\* later ones, read after the threshold had grown past their score, were
\* not.
C14_Witness ==
    /\ lpc = "wait_poll"
    /\ Len(wait_reads) > Len(ww_stream) + quiet_streak_limit
    /\ Len(ww_stream) > 80
    /\ \A i \in 1..Len(wait_reads) : wait_reads[i][1] = chunk
    /\ Last(ww_stream) = chunk

\* C15 (Spec): however on_activation interleaves with the test and the
\* reset of found_wake_word(), no more calls have returned True than there
\* were activations, and of two calls in a row that returned True the
\* second had an activation after the first.
C15_PollIsEdgeTriggered ==
    /\ n_true_polls <= n_activations
    /\ (prev_poll[1] /\ last_poll[1]) => last_poll[2] > prev_poll[2]

\* C15 witness: two calls in a row returned True, one for each of two
\* activations.
C15_Witness ==
    /\ prev_poll = <<TRUE, 1>>
    /\ last_poll = <<TRUE, 2>>
    /\ n_true_polls = 2
    /\ ~has_found

\* C16 (FairSpec): with the trigger flag set, at most one read of a waiting
\* phase completes: the iteration whose read completes with the flag set
\* emits the wakeword event at its test (line 112) and leaves the waiting
\* phase, with or without a detection by the engine; and unless stop() is
\* called the loop gets there.
C16_TriggerAnsweredByNextRead ==
    /\ []((lpc \in WaitingPcs /\ listen_triggered) =>
            /\ trig_reads <= 1
            /\ lpc \in {"wait_top", "wait_call", "wait_read"}
                  => trig_reads = 0)
    /\ [][(lpc = "wait_found" /\ lpc' # lpc /\ listen_triggered) =>
             /\ events' = Append(events, "wakeword")
             /\ lpc' = "listen_check"]_vars
    /\ ((listen_triggered /\ ~stop_signaled
            /\ (lpc \in {"wait_call", "wait_read", "wait_poll", "wait_found"}
                   \/ (lpc = "wait_top" /\ frame_idx < MaxFrames)))
          ~> (stop_signaled
                \/ (lpc \notin WaitingPcs /\ events # <<>>
                       /\ trig_reads <= 1)))

\* C16 witness: trigger_listen() was called during the second iteration of
\* a waiting phase, the engine never reported a detection, and the wakeword
\* event was emitted when that iteration's read had completed.
C16_Witness ==
    /\ lpc = "listen_check"
    /\ frame_idx = 2
    /\ trig_reads = 1
    /\ n_triggers = 1
    /\ n_activations = 0
    /\ ~stop_signaled
    /\ events = <<"wakeword">>

\* C17 (SpecStream): a read(size) that got the lock with the stream unmuted
\* never returns the placeholder and never reads from a stopped hardware
\* stream; while it runs it holds (size - remaining) frames; and it returns
\* exactly size frames, the partial hardware reads joined in the order they
\* were made, whatever the device reported as available.
C17_UnmutedReadReturnsFullSize ==
    /\ (~muted_at_start /\ rpc \in {"loop", "avail", "join"}) =>
          /\ remaining >= 0
          /\ Len(hw_log) = (size - remaining) * SAMPLE_WIDTH
          /\ Join(frames) = hw_log
          /\ ~hw_read_stopped
    /\ (~muted_at_start /\ rpc = "idle" /\ ret_kind # "none") =>
          /\ ret_kind = "audio"
          /\ Len(result) = size * SAMPLE_WIDTH
          /\ result = hw_log
          /\ ~hw_read_stopped

\* C17 witness: a read of two frames found nothing available and slept,
\* then got its frames in two hardware reads of one frame each, and
\* returned them in that order.
C17_Witness ==
    /\ rpc = "idle"
    /\ ret_kind = "audio"
    /\ ~muted_at_start
    /\ size = 2
    /\ slept
    /\ Len(frames) = 2
    /\ frames[1] # frames[2]
    /\ result = frames[1] \o frames[2]

\* the chunks of the reads of the history, in the order read
ChunksRead(hist) == [i \in 1..Len(hist) |-> hist[i][1]]

\* C18 as claimed (Spec): with wake-word persistence enabled the ring holds
\* the most recent min(k, capacity) of the k chunks read in this waiting
\* phase, loud or quiet, in the order read.
C18_RingHoldsEveryRecentChunk ==
    (save_wake_words /\ n_listens > 0 /\ Len(wait_reads) < MaxHistory) =>
       /\ Len(last_chunks) = Min(Len(wait_reads), last_chunks_maxlen)
       /\ last_chunks = Suffix(ChunksRead(wait_reads), Len(last_chunks))

\* a buffer cut into pieces of n bytes, the last one shorter when the
\* length is not a multiple of n
RECURSIVE Rechunk(_, _)
Rechunk(buf, n) ==
    IF Len(buf) = 0 THEN <<>>
    ELSE IF Len(buf) <= n THEN <<buf>>
    ELSE <<SubSeq(buf, 1, n)>> \o Rechunk(SubSeq(buf, n + 1, Len(buf)), n)

\* C19 as claimed (SpecMutePhrase): the utterance a recording phase
\* returned, cut into pieces of the chunk size, is the sequence of chunks
\* read during that phase, also when the microphone was muted and unmuted
\* by another thread meanwhile.
C19_RechunkedUtteranceIsChunksRead ==
    (lpc = "idle" /\ listen_result = "audio") =>
       Rechunk(utterance, CHUNK * SAMPLE_WIDTH) = phrase_reads

\* restart() has returned, nothing was done to the microphone since, and
\* every mute() or unmute() call that overlapped the restart ran between the
\* close and the reopen
RestartedQuietly == since_restart /\ ~outside_call

\* C20 as claimed (SpecRestart): after restart() returns the new stream's
\* muted flag is the microphone's muted flag from before the restart, and
\* the new hardware stream is stopped exactly when the microphone is muted,
\* also when mute() or unmute() was called between the close and the reopen.
C20_RestartKeepsFlagFromBefore ==
    RestartedQuietly =>
       /\ muted = muted_before
       /\ (wrapped_stream = "stopped") <=> mic_muted

\* C20 as amended (SpecRestart): restart() closes the old stream before it
\* opens the new one and never writes the microphone's muted flag; after it
\* returns the new stream's muted flag is the microphone's muted flag as
\* _start read it (line 140), which is the flag from before the restart
\* unless mute() or unmute() was called between the close and the reopen,
\* and the new hardware stream is stopped exactly when the microphone is
\* muted.
C20_RestartTakesFlagAtReopen ==
    /\ rst_pc \in {"drop", "open", "construct"} => wrapped_stream = "closed"
    /\ rst_pc \in {"open", "construct"} => mic_stream = "none"
    /\ (rst_pc # "idle" /\ ~window_call /\ ~outside_call)
          => mic_muted = muted_before
    /\ RestartedQuietly =>
          /\ mic_stream = "open"
          /\ muted = new_muted
          /\ muted = mic_muted
          /\ (wrapped_stream = "stopped") <=> mic_muted
          /\ (wrapped_stream = "active") <=> ~mic_muted
          /\ read_lock = "none"
          /\ ~window_call => muted = muted_before

\* C20 witness: the microphone was unmuted when restart() began, mute() was
\* called between the close and the reopen, and the new stream came up
\* muted and stopped.
C20_Witness ==
    /\ RestartedQuietly
    /\ window_call
    /\ ~muted_before
    /\ muted
    /\ wrapped_stream = "stopped"
    /\ mic_stream = "open"

\* every mute() and unmute() call on the microphone has returned
ControllersReturned == \A c \in Controllers : cpc[c] = "idle"

\* C21 as claimed (SpecStream): for every interleaving of concurrent
\* MutableMicrophone.mute() and unmute() calls on an open microphone, once
\* all calls have returned is_muted() (the microphone's flag, written outside
\* the stream lock) equals the stream's muted flag.
C21_MicFlagIsStreamFlagAtRest ==
    (ControllersReturned /\ mic_stream = "open") => (mic_muted = muted)

LaterListen == stop_signaled /\ n_listens > stop_listen

\* C23 (FairSpec): once stop() has set the stop flag nothing clears it, and
\* a listen() call made afterwards goes from the flush to the loop test
\* (line 92) and the test of line 159 only: it starts no device read, emits
\* no event and returns None.
C23_StoppedIsTerminal ==
    /\ [][stop_signaled => stop_signaled']_vars
    /\ [](LaterListen =>
             /\ lpc \in {"idle", "wait_top", "listen_check"}
             /\ lpc = "idle" => listen_result = "none")
    /\ [][LaterListen' =>
             /\ events' = events
             /\ reads_after_stop' = reads_after_stop]_vars
    /\ (LaterListen ~> (lpc = "idle" /\ listen_result = "none"))

\* C23 witness: a first listen() call recorded a phrase, stop() was called
\* when it had returned, and the second listen() call has returned None with
\* no device read started and no event added.
C23_Witness ==
    /\ LaterListen
    /\ stop_pc = "idle"
    /\ stop_listen = 1
    /\ n_listens = 2
    /\ lpc = "idle"
    /\ listen_result = "none"
    /\ reads_after_stop = 0
    /\ Len(events) = stop_events
    /\ events = <<"wakeword", "record_begin", "record_end">>

====
